---- MODULE Spec2Model ----
(***************************************************************************)
(* Model of the SNIRF -> NWB converter of the finger-tapping fNIRS         *)
(* dataset: src/src/snirf.py (source reader), src/src/nwb.py (target       *)
(* builder), src/src/bids.py (sidecar metadata) and                        *)
(* src/convert_tapping_dataset_to_nirs.py (batch driver).                  *)
(*                                                                         *)
(* Conventions.                                                            *)
(*  - A Python sequence is a TLA+ sequence; Python index i is TLA+ index   *)
(*    i + 1.  PyIndex models list / ndarray subscripting, negative         *)
(*    indices included.                                                    *)
(*  - An exception is a record with a field "exc"; an operator that can    *)
(*    raise returns either its value or such a record.                     *)
(*  - A key of the data1 group is [stem, suffix]: the text before the      *)
(*    decimal suffix and the suffix as a sequence of digits, so that       *)
(*    "measurementList01" is [stem |-> "measurementList", suffix |->       *)
(*    <<0, 1>>].                                                           *)
(*  - A wavelength (a float in the recording) is held as a count of half   *)
(*    nanometres: 1521 is 760.5 nm.                                        *)
(***************************************************************************)
EXTENDS Integers, Sequences, FiniteSets, TLC

\* ------------------------------------------------------------------------
\* Bounds of the model
\* ------------------------------------------------------------------------

\* Largest number of sources, and of detectors, a modelled recording has.
MaxOptodes == 2

\* Largest number of rows of a modelled events file.
MaxRows == 4

\* Largest number of rows of a modelled participants table.
MaxSubjects == 3

\* the most descriptor groups of a recording whose groups are numbered 1..n
MaxGroups == 10

\* ------------------------------------------------------------------------
\* Generic helpers (Python semantics)
\* ------------------------------------------------------------------------

NoValue == [none |-> TRUE]

\* A value handed back by an operator that can also raise.
Return(v) == [ret |-> v]

IsError(x) == "exc" \in DOMAIN x

IndexError == [exc |-> "IndexError", what |-> "index out of range"]

\* seq[i] of a Python list or numpy array: 0 <= i < n counts from the front,
\* -n <= i < 0 from the back, anything else raises IndexError.
PyIndex(seq, i) ==
    IF 0 <= i /\ i < Len(seq) THEN Return(seq[i + 1])
    ELSE IF i < 0 /\ -Len(seq) <= i THEN Return(seq[Len(seq) + i + 1])
    ELSE IndexError

\* zip(a, b): pairs up to the shorter of the two.
Zip(a, b) ==
    LET n == IF Len(a) <= Len(b) THEN Len(a) ELSE Len(b)
    IN [k \in 1..n |-> <<a[k], b[k]>>]

\* int(text) of a decimal digit string.
RECURSIVE ParseInt(_)
ParseInt(digits) ==
    IF digits = <<>> THEN 0
    ELSE 10 * ParseInt(SubSeq(digits, 1, Len(digits) - 1)) + digits[Len(digits)]

\* f"{x:.0f}" of a float held as a count of halves: the nearest integer,
\* a tie going to the even one.
FormatFloat0(halves) ==
    LET q == halves \div 2
    IN IF halves % 2 = 0 THEN q
       ELSE IF q % 2 = 0 THEN q ELSE q + 1

\* Lexicographic order of two digit strings (the order of the characters
\* '0'..'9' is the order of the digits; a proper prefix comes first).
RECURSIVE DigitsLess(_, _)
DigitsLess(a, b) ==
    IF a = <<>> THEN b # <<>>
    ELSE IF b = <<>> THEN FALSE
    ELSE IF a[1] # b[1] THEN a[1] < b[1]
    ELSE DigitsLess(Tail(a), Tail(b))

\* ------------------------------------------------------------------------
\* The recording (an opened SNIRF file)
\* ------------------------------------------------------------------------

prefix == "measurementList"

MLKey(digits) == [stem |-> prefix, suffix |-> digits]

\* Keys of nirs/data1 that are not channel descriptors.
OtherDataKeys ==
    { [stem |-> "dataTimeSeries", suffix |-> <<>>],
      [stem |-> "time", suffix |-> <<>>] }

\* The order in which h5py lists the members of a group: by name.
KeyLess(a, b) ==
    IF a.stem = b.stem THEN DigitsLess(a.suffix, b.suffix)
    ELSE IF a.stem = "dataTimeSeries" THEN TRUE
    ELSE IF b.stem = "dataTimeSeries" THEN FALSE
    ELSE a.stem = prefix

RECURSIVE SortKeys(_)
SortKeys(S) ==
    IF S = {} THEN <<>>
    ELSE LET m == CHOOSE x \in S : \A y \in S \ {x} : KeyLess(x, y)
         IN <<m>> \o SortKeys(S \ {m})

\* snirf["nirs"]["data1"].keys()
data_keys(snirf) == SortKeys(DOMAIN snirf.data1)

\* ------------------------------------------------------------------------
\* src/src/snirf.py
\* ------------------------------------------------------------------------

\* The fields of expected_unit_map, in the order the dict literal lists them.
expected_unit_fields == <<"LengthUnit", "TimeUnit", "FrequencyUnit">>

expected_unit_map ==
    [LengthUnit |-> "m", TimeUnit |-> "s", FrequencyUnit |-> "Hz"]

UnitError(uom_field, expected_uom, actual_uom) ==
    [exc |-> "ValueError", what |-> "Unsupported unit of measurement",
     field |-> uom_field, expected |-> expected_uom, found |-> actual_uom]

\* The loop of check_units_of_measurement from the k-th field on: the first
\* field whose unit differs from the expected one raises.
RECURSIVE CheckUnitsFrom(_, _)
CheckUnitsFrom(metadata, k) ==
    IF k > Len(expected_unit_fields) THEN NoValue
    ELSE LET uom_field == expected_unit_fields[k]
             expected_uom == expected_unit_map[uom_field]
             actual_uom == metadata[uom_field]
         IN IF actual_uom # expected_uom
            THEN UnitError(uom_field, expected_uom, actual_uom)
            ELSE CheckUnitsFrom(metadata, k + 1)

\* check_units_of_measurement with the frequency unit left unchecked.
check_units_without_frequency(snirf) ==
    LET r == CheckUnitsFrom(snirf.metaDataTags, 1)
    IN IF IsError(r) /\ r.field = "FrequencyUnit" THEN NoValue ELSE r

check_units_of_measurement(snirf) == CheckUnitsFrom(snirf.metaDataTags, 1)

sex_map == [c \in {"1", "2"} |-> IF c = "1" THEN "M" ELSE "F"]

\* get_subject_sex with sex_map.get(sex_id, "M") in place of the raise.
get_subject_sex_defaulting(snirf) ==
    LET sex_id == snirf.metaDataTags.sex
    IN IF sex_id \notin DOMAIN sex_map THEN Return("M") ELSE Return(sex_map[sex_id])

get_subject_sex(snirf) ==
    LET sex_id == snirf.metaDataTags.sex
    IN IF sex_id \notin DOMAIN sex_map
       THEN [exc |-> "KeyError", what |-> "sex id is not known", found |-> sex_id]
       ELSE Return(sex_map[sex_id])

\* An insertion-ordered dict is a sequence of <<key, value>> pairs.
DictValues(d) == [k \in 1..Len(d) |-> d[k][2]]

\* d[key] = value: a key already present keeps its place and takes the new
\* value, a new key goes to the end.
DictSet(d, key, value) ==
    IF \E k \in 1..Len(d) : d[k][1] = key
    THEN [k \in 1..Len(d) |-> IF d[k][1] = key THEN <<key, value>> ELSE d[k]]
    ELSE Append(d, <<key, value>>)

\* mls = [k for k in data_keys if k.startswith(prefix)]
measurement_list_keys(snirf) ==
    SelectSeq(data_keys(snirf), LAMBDA k : k.stem = prefix)

_extract_channel_id(ml) == ParseInt(ml.suffix)

RECURSIVE MapChannelsFrom(_, _, _)
MapChannelsFrom(mls, k, d) ==
    IF k > Len(mls) THEN d
    ELSE MapChannelsFrom(mls, k + 1, DictSet(d, _extract_channel_id(mls[k]), mls[k]))

\* {_extract_channel_id(ml): ml for ml in mls}
_map_channels_to_measurement_lists(snirf) ==
    MapChannelsFrom(measurement_list_keys(snirf), 1, <<>>)

_list_measurement_list_groups(snirf) ==
    DictValues(_map_channels_to_measurement_lists(snirf))

_to_zero_based_index(stored) == stored - 1

_extract_channel(snirf, ml) ==
    LET ch_data == snirf.data1[ml]
    IN [source_idx |-> _to_zero_based_index(ch_data.sourceIndex),
        detector_idx |-> _to_zero_based_index(ch_data.detectorIndex),
        wavelength_idx |-> _to_zero_based_index(ch_data.wavelengthIndex)]

\* {channel_id: _extract_channel(ml) for channel_id, ml in channels.items()}
compile_channel_data(snirf) ==
    LET channels == _map_channels_to_measurement_lists(snirf)
    IN [k \in 1..Len(channels) |->
            <<channels[k][1], _extract_channel(snirf, channels[k][2])>>]

DataTypeError(value) ==
    [exc |-> "ValueError", what |-> "Unsupported value for MeasurementList dataType",
     expected |-> 1, found |-> value]

DataTypeIndexError(value) ==
    [exc |-> "ValueError", what |-> "Unsupported value for MeasurementList dataTypeIndex",
     expected |-> 1, found |-> value]

RECURSIVE CheckDataTypeFrom(_, _, _)
CheckDataTypeFrom(snirf, groups, k) ==
    IF k > Len(groups) THEN NoValue
    ELSE LET data_type == snirf.data1[groups[k]].dataType
             data_type_index == snirf.data1[groups[k]].dataTypeIndex
         IN IF data_type # 1 THEN DataTypeError(data_type)
            ELSE IF data_type_index # 1 THEN DataTypeIndexError(data_type_index)
            ELSE CheckDataTypeFrom(snirf, groups, k + 1)

check_nirs_data_type_and_index(snirf) ==
    CheckDataTypeFrom(snirf, _list_measurement_list_groups(snirf), 1)

get_source_labels(snirf) == snirf.probe.sourceLabels

get_source_pos(snirf) == snirf.probe.sourcePos3D

get_detector_labels(snirf) == snirf.probe.detectorLabels

get_detector_pos(snirf) == snirf.probe.detectorPos3D

get_wavelengths(snirf) == snirf.probe.wavelengths

\* ------------------------------------------------------------------------
\* src/src/nwb.py
\* ------------------------------------------------------------------------

\* compile_sources_table and compile_detectors_table: one row per
\* (label, position) pair of zip(labels, positions).
OptodeRows(labels, positions) ==
    LET z == Zip(labels, positions)
    IN [k \in 1..Len(z) |-> [label |-> z[k][1], pos |-> z[k][2]]]

compile_sources_table(labels, positions) == OptodeRows(labels, positions)

compile_detectors_table(labels, positions) == OptodeRows(labels, positions)

\* The label column of an optode table.
LabelColumn(table) == [k \in 1..Len(table) |-> table[k].label]

\* f"{source_label}_{detector_label} {source_wavelength:.0f}"
ChannelLabel(source_label, detector_label, source_wavelength) ==
    <<source_label, "_", detector_label, " ", FormatFloat0(source_wavelength)>>

\* ChannelRow with the stored one-based source index kept in the row.
ChannelRowOneBasedSource(channel, sources, detectors, wavelengths) ==
    LET source_label == PyIndex(LabelColumn(sources), channel.source_idx)
        detector_label == PyIndex(LabelColumn(detectors), channel.detector_idx)
        source_wavelength == PyIndex(wavelengths, channel.wavelength_idx)
    IN IF IsError(source_label) \/ IsError(detector_label)
          \/ IsError(source_wavelength)
       THEN IndexError
       ELSE [label |-> ChannelLabel(source_label.ret, detector_label.ret,
                                    source_wavelength.ret),
             source |-> channel.source_idx + 1,
             detector |-> channel.detector_idx,
             source_wavelength |-> source_wavelength.ret]

\* One pass of the loop of compile_channels_table: the row added for one
\* channel, or the IndexError of the first subscript that is out of range.
ChannelRow(channel, sources, detectors, wavelengths) ==
    LET source_label == PyIndex(LabelColumn(sources), channel.source_idx)
        detector_label == PyIndex(LabelColumn(detectors), channel.detector_idx)
        source_wavelength == PyIndex(wavelengths, channel.wavelength_idx)
    IN IF IsError(source_label) \/ IsError(detector_label)
          \/ IsError(source_wavelength)
       THEN IndexError
       ELSE [label |-> ChannelLabel(source_label.ret, detector_label.ret,
                                    source_wavelength.ret),
             source |-> channel.source_idx,
             detector |-> channel.detector_idx,
             source_wavelength |-> source_wavelength.ret]

RECURSIVE ChannelRowsFrom(_, _, _, _, _, _)
ChannelRowsFrom(channels_meta, k, rows, sources, detectors, wavelengths) ==
    IF k > Len(channels_meta) THEN Return(rows)
    ELSE LET row == ChannelRow(channels_meta[k][2], sources, detectors, wavelengths)
         IN IF IsError(row) THEN IndexError
            ELSE ChannelRowsFrom(channels_meta, k + 1, Append(rows, row),
                                 sources, detectors, wavelengths)

\* The channels table: its rows (row k has id k - 1) and the tables its
\* source and detector columns refer to.
compile_channels_table(channels_meta, sources, detectors, wavelengths) ==
    LET rows == ChannelRowsFrom(channels_meta, 1, <<>>, sources, detectors, wavelengths)
    IN IF IsError(rows) THEN IndexError
       ELSE [rows |-> rows.ret, source_table |-> sources, detector_table |-> detectors]

map_channel_metadata(snirf) ==
    LET sources == compile_sources_table(get_source_labels(snirf), get_source_pos(snirf))
        detectors ==
            compile_detectors_table(get_detector_labels(snirf), get_detector_pos(snirf))
        channels_meta == compile_channel_data(snirf)
        wavelengths == get_wavelengths(snirf)
    IN compile_channels_table(channels_meta, sources, detectors, wavelengths)

map_subject_metadata(snirf) ==
    LET sex == get_subject_sex(snirf)
    IN IF IsError(sex) THEN sex
       ELSE [subject_id |-> snirf.metaDataTags.SubjectID, sex |-> sex.ret]

\* channels.id[:] of a table of n rows.
RowIds(table) == [k \in 1..Len(table.rows) |-> k - 1]

compile_series(channels) ==
    [name |-> "nirs_data", unit |-> "V", channels |-> RowIds(channels)]

\* compile_stim_timeseries: data is the trial_type column, timestamps the
\* onset column.
compile_stim_timeseries(stim_data) ==
    [name |-> "auditory", unit |-> "N/A",
     data |-> [k \in 1..Len(stim_data) |-> stim_data[k].trial_type],
     timestamps |-> [k \in 1..Len(stim_data) |-> stim_data[k].onset]]

\* ------------------------------------------------------------------------
\* src/src/bids.py
\* ------------------------------------------------------------------------

\* load_stim_table that takes the start and end markers to be the first and
\* the last row of the file and drops those two only.
load_stim_table_ends_only(events) ==
    LET keep == {k \in 1..Len(events) :
                    k \in {1, Len(events)} => events[k].value # 15}
        RECURSIVE Kept(_)
        Kept(k) == IF k > Len(events) THEN <<>>
                   ELSE (IF k \in keep THEN <<events[k]>> ELSE <<>>) \o Kept(k + 1)
    IN Kept(1)

\* stim_table[stim_table.value != 15]: the rows the mask keeps, in order.
load_stim_table(events) == SelectSeq(events, LAMBDA row : row.value # 15)

\* A parsed JSON object is a function from its keys to its values; a value
\* is held as the text "{value}" renders it to.
KeyError(key) == [exc |-> "KeyError", what |-> "key not found", found |-> key]

\* obj[key] of a dict: the value, or KeyError(key).
Subscript(obj, key) == IF key \in DOMAIN obj THEN Return(obj[key]) ELSE KeyError(key)

\* get_dataset_description(bids_path)["BIDSVersion"]
get_bids_version(sidecar_files) == Subscript(sidecar_files.dataset_description, "BIDSVersion")

get_coordinate_frame_description(sidecar_files) == sidecar_files.coordsystem

get_sidecar_metadata(sidecar_files) == sidecar_files.nirs_sidecar

\* bids_path / subject_id / "nirs"
get_subject_dir(bids_path, subject_id) == <<bids_path, subject_id, "nirs">>

\* list_subject_ids that lists the subject directories of the dataset, in
\* the order of their names, and not the participants table.
list_subject_ids_from_dirs(data) ==
    SelectSeq(<<"sub-01", "sub-02", "sub-03">>, LAMBDA sid : sid \in data.subject_dirs)

\* participant_table.participant_id.to_list()
list_subject_ids(data) == data.participants

\* ------------------------------------------------------------------------
\* src/convert_tapping_dataset_to_nirs.py
\* ------------------------------------------------------------------------

\* A path: its directory, and the stem and the suffix of its file name.
_get_subject_input_path(input_root, subject_id) ==
    [dir |-> get_subject_dir(input_root, subject_id),
     stem |-> <<subject_id, "_task-tapping_nirs">>,
     ext |-> ".snirf"]

\* The path _prepare_subject_output_path returns; the mkdir of its directory
\* is part of PreparePaths.
_prepare_subject_output_path(output_root, subject_id) ==
    [dir |-> <<output_root, subject_id>>,
     stem |-> <<subject_id, "_task-tapping_nirs">>,
     ext |-> ".nwb"]

CONVERTER_VERSION == "0.1.0"

\* os.path.basename(__file__)
ScriptName == "convert_tapping_dataset_to_nirs.py"

get_format_version(snirf) == snirf.formatVersion

\* The first desired_fields of _compile_dataset_specific_notes, read from
\* the coordsystem file, and the second, read from the task sidecar.
coord_desired_fields ==
    <<"NIRSCoordinateSystem", "NIRSCoordinateSystemDescription", "NIRSCoordinateUnits">>

sidecar_desired_fields == <<"TaskName", "PowerLineFrequency">>

\* CopyFields with "if field in source" in front of the assignment: a field
\* the file lacks is left out of the notes.
RECURSIVE CopyFieldsSkippingMissing(_, _, _, _)
CopyFieldsSkippingMissing(notes, source, fields, k) ==
    IF k > Len(fields) THEN Return(notes)
    ELSE LET value == Subscript(source, fields[k])
         IN IF IsError(value) THEN CopyFieldsSkippingMissing(notes, source, fields, k + 1)
            ELSE CopyFieldsSkippingMissing(DictSet(notes, fields[k], value.ret),
                                           source, fields, k + 1)

\* for field in desired_fields: notes[field] = source[field], from the k-th
\* field on: the first field the file lacks raises.
RECURSIVE CopyFields(_, _, _, _)
CopyFields(notes, source, fields, k) ==
    IF k > Len(fields) THEN Return(notes)
    ELSE LET value == Subscript(source, fields[k])
         IN IF IsError(value) THEN value
            ELSE CopyFields(DictSet(notes, fields[k], value.ret), source, fields, k + 1)

\* The four assignments that open _compile_dataset_specific_notes.
NotesHead(snirf, sidecar_files) ==
    LET bids_version == get_bids_version(sidecar_files)
    IN IF IsError(bids_version) THEN bids_version
       ELSE Return(<< <<"Source file SNIRF version", get_format_version(snirf)>>,
                      <<"Source dataset BIDS version", bids_version.ret>>,
                      <<"Conversion script", ScriptName>>,
                      <<"Conversion codebase version", CONVERTER_VERSION>> >>)

\* The text of a multi-line string: its lines, each <<key, ": ", value>>,
\* with <<"\n">> between one line and the next.
RECURSIVE JoinLines(_)
JoinLines(note_lines) ==
    IF note_lines = <<>> THEN <<>>
    ELSE IF Len(note_lines) = 1 THEN note_lines
    ELSE <<note_lines[1], <<"\n">>>> \o JoinLines(Tail(note_lines))

_serialize_notes(notes) ==
    LET note_lines == [k \in 1..Len(notes) |-> <<notes[k][1], ": ", notes[k][2]>>]
    IN JoinLines(note_lines)

_compile_dataset_specific_notes(snirf, sidecar_files) ==
    LET head == NotesHead(snirf, sidecar_files)
    IN IF IsError(head) THEN head
       ELSE LET with_coord ==
                    CopyFields(head.ret, get_coordinate_frame_description(sidecar_files),
                               coord_desired_fields, 1)
            IN IF IsError(with_coord) THEN with_coord
               ELSE LET with_sidecar ==
                            CopyFields(with_coord.ret, get_sidecar_metadata(sidecar_files),
                                       sidecar_desired_fields, 1)
                    IN IF IsError(with_sidecar) THEN with_sidecar
                       ELSE Return(_serialize_notes(with_sidecar.ret))

\* ------------------------------------------------------------------------
\* State
\* ------------------------------------------------------------------------

VARIABLES
    snirf,          \* convert_to_nwb: the recording being converted
    stimulus_data,  \* convert_to_nwb: its stimulus_data argument
    pc,             \* convert_to_nwb: the position in its body
    channels,       \* convert_to_nwb: the local of that name
    nwb,            \* convert_to_nwb: the NWBFile under construction
    err,            \* convert_to_nwb: the exception it raised
    events_tsv,     \* load_stim_table: the rows of the events file
    stim_pc,        \* the position of the stimulus pipeline
    stim_timeseries,\* compile_stim_timeseries: the series it returned
    dataset,        \* the input dataset: participants table and recordings
    bpc,            \* main / convert_subject_snirf_to_nwb: the position
    subject_ids,    \* main: the list list_subject_ids returned
    nth,            \* main: the one-based position of the loop in subject_ids
    paths,          \* convert_subject_snirf_to_nwb: snirf_path and nwb_path
    dirs,           \* the directories created under the output root
    files,          \* the files under the output root
    handles,        \* the open file handles of the process
    reads,          \* the recordings opened so far, in order
    stdout,         \* the lines printed so far
    berr,           \* the exception that ended the run
    sidecar_files,  \* the parsed JSON files of the dataset and the subject
    notes_pc,       \* _compile_dataset_specific_notes: the position
    notes,          \* _compile_dataset_specific_notes: the local of that name
    notes_text,     \* _compile_dataset_specific_notes: the text it returned
    notes_err       \* _compile_dataset_specific_notes: the exception it raised

convVars == <<snirf, stimulus_data, pc, channels, nwb, err>>

stimVars == <<events_tsv, stim_pc, stim_timeseries>>

batchVars ==
    <<dataset, bpc, subject_ids, nth, paths, dirs, files, handles, reads, stdout, berr>>

notesVars == <<sidecar_files, notes_pc, notes, notes_text, notes_err>>

vars == <<convVars, stimVars, batchVars, notesVars>>

\* ------------------------------------------------------------------------
\* Inputs
\* ------------------------------------------------------------------------

SourceLabel(k) == <<"S", k>>

DetectorLabel(k) == <<"D", k>>

\* 760.5 nm and 851.5 nm: both are ties for ":.0f".
Wavelengths == <<1521, 1703>>

Probe(ns, nd) ==
    [sourceLabels |-> [k \in 1..ns |-> SourceLabel(k)],
     sourcePos3D |-> [k \in 1..ns |-> <<k, 0, 0>>],
     detectorLabels |-> [k \in 1..nd |-> DetectorLabel(k)],
     detectorPos3D |-> [k \in 1..nd |-> <<0, k, 0>>],
     wavelengths |-> Wavelengths]

GoodMeta ==
    [LengthUnit |-> "m", TimeUnit |-> "s", FrequencyUnit |-> "Hz",
     sex |-> "1", SubjectID |-> "01"]

SexCodes == {"0", "1", "2", "3", ""}

MetaSet ==
    [LengthUnit : {"m", "mm"}, TimeUnit : {"s", "ms"}, FrequencyUnit : {"Hz", "kHz"},
     sex : SexCodes, SubjectID : {"01"}]

\* Suffixes of the descriptor groups a modelled recording may hold:
\* "measurementList01", "measurementList1" and "measurementList2".
MLSuffixes == {<<0, 1>>, <<1>>, <<2>>}

MLKeySets == {{MLKey(d) : d \in S} : S \in SUBSET MLSuffixes}

\* The data1 group holding the descriptor groups f and the two datasets.
Data1(f) ==
    [k \in DOMAIN f \cup OtherDataKeys |->
        IF k \in DOMAIN f THEN f[k] ELSE [dataset |-> TRUE]]

Recording(meta, ns, nd, f) ==
    [formatVersion |-> "1.0", metaDataTags |-> meta, probe |-> Probe(ns, nd),
     data1 |-> Data1(f)]

Descriptor(s, d, w) ==
    [sourceIndex |-> s, detectorIndex |-> d, wavelengthIndex |-> w,
     dataType |-> 1, dataTypeIndex |-> 1]

\* Descriptors that differ in their data type fields only.
TypeDescriptors ==
    [sourceIndex : {1}, detectorIndex : {1}, wavelengthIndex : {1},
     dataType : {1, 2}, dataTypeIndex : {1, 2}]

\* Descriptors of a supported type whose stored (one-based) indices run from
\* 0 to one past the number of sources and of detectors.
IndexDescriptors(ns, nd) ==
    [sourceIndex : 0..(ns + 1), detectorIndex : 0..(nd + 1),
     wavelengthIndex : 1..Len(Wavelengths), dataType : {1}, dataTypeIndex : {1}]

BaseDescriptors ==
    [k \in {MLKey(<<1>>), MLKey(<<2>>)} |->
        IF k = MLKey(<<1>>) THEN Descriptor(1, 1, 1) ELSE Descriptor(2, 2, 2)]

\* Recordings that differ in their metadata tags.
InitMetaRecording ==
    \E m \in MetaSet : snirf = Recording(m, 2, 2, BaseDescriptors)

\* Recordings that differ in the names and the data types of their
\* descriptor groups.
InitTypeRecording ==
    \E keys \in MLKeySets : \E f \in [keys -> TypeDescriptors] :
        snirf = Recording(GoodMeta, 1, 1, f)

\* Recordings that differ in their probe and in the names and the indices
\* of at most two descriptor groups.
InitIndexRecording ==
    \E ns \in 1..MaxOptodes, nd \in 1..MaxOptodes :
        \E keys \in {K \in MLKeySets : Cardinality(K) <= 2} :
            \E f \in [keys -> IndexDescriptors(ns, nd)] :
                snirf = Recording(GoodMeta, ns, nd, f)

\* The decimal digits of a positive integer, as str(i) writes them.
RECURSIVE Digits(_)
Digits(i) == IF i < 10 THEN <<i>> ELSE Digits(i \div 10) \o <<i % 10>>

\* The descriptor groups measurementList1..measurementListn, group i
\* naming source i, the one detector and the wavelength w.
NumberedDescriptors(n, w) ==
    [k \in {MLKey(Digits(i)) : i \in 1..n} |-> Descriptor(ParseInt(k.suffix), 1, w)]

\* Recordings of n sources and one detector that differ in the number n of
\* their descriptor groups, numbered 1..n.
InitOrderRecording ==
    \E n \in 1..MaxGroups, w \in 1..Len(Wavelengths) :
        snirf = Recording(GoodMeta, n, 1, NumberedDescriptors(n, w))

DefaultEvents ==
    <<[onset |-> 0, trial_type |-> "ExperimentStart", value |-> 15],
      [onset |-> 1, trial_type |-> "Tapping/Left", value |-> 2],
      [onset |-> 2, trial_type |-> "Control", value |-> 1],
      [onset |-> 3, trial_type |-> "ExperimentEnd", value |-> 15]>>

\* The JSON files the notes are read from. dataset_description.json holds
\* Name and BIDSVersion, the coordsystem file the three coordinate fields,
\* the task sidecar TaskName, PowerLineFrequency and SamplingFrequency; a
\* file may lack any of its keys.
DescriptionValues(bids_version) ==
    [k \in {"Name", "BIDSVersion"} |->
        IF k = "Name" THEN "fNIRS finger tapping" ELSE bids_version]

CoordValues(units) ==
    [k \in {"NIRSCoordinateSystem", "NIRSCoordinateSystemDescription",
            "NIRSCoordinateUnits"} |->
        IF k = "NIRSCoordinateSystem" THEN "Other"
        ELSE IF k = "NIRSCoordinateSystemDescription" THEN "MNI head coordinates"
        ELSE units]

SidecarValues(frequency) ==
    [k \in {"TaskName", "PowerLineFrequency", "SamplingFrequency"} |->
        IF k = "TaskName" THEN "tapping"
        ELSE IF k = "PowerLineFrequency" THEN frequency
        ELSE "7.8125"]

\* The object obj without the keys outside keys.
Restrict(obj, keys) == [k \in keys |-> obj[k]]

CompleteSidecars ==
    [dataset_description |-> DescriptionValues("1.7.0"),
     coordsystem |-> CoordValues("m"),
     nirs_sidecar |-> SidecarValues("50")]

\* The batch driver at rest: no run of main is under way.
NoBatch ==
    /\ dataset = NoValue
    /\ bpc = "none"
    /\ subject_ids = <<>>
    /\ nth = 0
    /\ paths = NoValue
    /\ dirs = {}
    /\ files = {}
    /\ handles = {}
    /\ reads = <<>>
    /\ stdout = <<>>
    /\ berr = NoValue

\* No call of _compile_dataset_specific_notes is under way.
NoNotes ==
    /\ notes_pc = "idle"
    /\ notes = <<>>
    /\ notes_text = NoValue
    /\ notes_err = NoValue

\* ------------------------------------------------------------------------
\* convert_to_nwb, one action per statement
\* ------------------------------------------------------------------------

Raise(e) ==
    /\ pc' = "raised"
    /\ err' = e

\* check_units_of_measurement(snirf)
CheckUnits ==
    /\ pc = "start"
    /\ LET r == check_units_of_measurement(snirf)
       IN IF IsError(r) THEN Raise(r)
          ELSE pc' = "units_checked" /\ UNCHANGED err
    /\ UNCHANGED <<snirf, stimulus_data, channels, nwb, stimVars, notesVars, batchVars>>

\* check_nirs_data_type_and_index(snirf)
CheckDataType ==
    /\ pc = "units_checked"
    /\ LET r == check_nirs_data_type_and_index(snirf)
       IN IF IsError(r) THEN Raise(r)
          ELSE pc' = "types_checked" /\ UNCHANGED err
    /\ UNCHANGED <<snirf, stimulus_data, channels, nwb, stimVars, notesVars, batchVars>>

\* channels = map_channel_metadata(snirf); device = compile_device(...)
MapChannelMetadata ==
    /\ pc = "types_checked"
    /\ LET r == map_channel_metadata(snirf)
       IN IF IsError(r) THEN Raise(r) /\ UNCHANGED channels
          ELSE pc' = "channels_mapped" /\ channels' = r /\ UNCHANGED err
    /\ UNCHANGED <<snirf, stimulus_data, nwb, stimVars, notesVars, batchVars>>

\* nwb = NWBFile(..., subject=map_subject_metadata(snirf), devices=[device], ...)
BuildNwbFile ==
    /\ pc = "channels_mapped"
    /\ LET r == map_subject_metadata(snirf)
       IN IF IsError(r) THEN Raise(r) /\ UNCHANGED nwb
          ELSE /\ pc' = "file_built"
               /\ nwb' = [subject |-> r, device_channels |-> channels,
                          acquisition |-> NoValue, stimulus |-> NoValue]
               /\ UNCHANGED err
    /\ UNCHANGED <<snirf, stimulus_data, channels, stimVars, notesVars, batchVars>>

\* nwb.add_acquisition(compile_series(...)); the stimulus series when
\* stimulus_data is not None; return nwb
AddSeries ==
    /\ pc = "file_built"
    /\ pc' = "returned"
    /\ nwb' = [nwb EXCEPT
                 !.acquisition = compile_series(channels),
                 !.stimulus = IF stimulus_data = NoValue THEN NoValue
                              ELSE compile_stim_timeseries(stimulus_data.rows)]
    /\ UNCHANGED <<snirf, stimulus_data, channels, err, stimVars, notesVars, batchVars>>

ConvertNext ==
    \/ CheckUnits
    \/ CheckDataType
    \/ MapChannelMetadata
    \/ BuildNwbFile
    \/ AddSeries

Init ==
    /\ \/ /\ InitMetaRecording
          /\ stimulus_data \in {NoValue, [rows |-> load_stim_table(DefaultEvents)]}
       \/ /\ InitTypeRecording \/ InitIndexRecording \/ InitOrderRecording
          /\ stimulus_data = [rows |-> load_stim_table(DefaultEvents)]
    /\ pc = "start"
    /\ channels = NoValue
    /\ nwb = NoValue
    /\ err = NoValue
    /\ events_tsv = <<>>
    /\ stim_pc = "idle"
    /\ stim_timeseries = NoValue
    /\ NoBatch
    /\ sidecar_files = NoValue
    /\ NoNotes

Next == ConvertNext

Spec == Init /\ [][Next]_vars

\* ------------------------------------------------------------------------
\* The stimulus pipeline: load_stim_table, then compile_stim_timeseries
\* ------------------------------------------------------------------------

\* Event codes of the modelled events files: two stimuli, the marker 15 and
\* its neighbour 16.
StimValues == {1, 2, 15, 16}

TrialType(v) == <<"trial_type", v>>

\* Events files of n rows: the onsets grow with the row.
EventTables(n) ==
    {[k \in 1..n |-> [onset |-> k - 1, trial_type |-> TrialType(vs[k]), value |-> vs[k]]] :
        vs \in [1..n -> StimValues]}

\* stimulus_data = load_stim_table(input_root, subject_id)
LoadStimTable ==
    /\ stim_pc = "file"
    /\ stimulus_data' = [rows |-> load_stim_table(events_tsv)]
    /\ stim_pc' = "loaded"
    /\ UNCHANGED <<snirf, pc, channels, nwb, err, events_tsv, stim_timeseries,
                   batchVars, notesVars>>

\* stim_timeseries = compile_stim_timeseries(stimulus_data)
CompileStimTimeseries ==
    /\ stim_pc = "loaded"
    /\ stim_timeseries' = compile_stim_timeseries(stimulus_data.rows)
    /\ stim_pc' = "compiled"
    /\ UNCHANGED <<convVars, events_tsv, batchVars, notesVars>>

InitStim ==
    /\ \E n \in 0..MaxRows : events_tsv \in EventTables(n)
    /\ stim_pc = "file"
    /\ stim_timeseries = NoValue
    /\ snirf = Recording(GoodMeta, 2, 2, BaseDescriptors)
    /\ stimulus_data = NoValue
    /\ pc = "idle"
    /\ channels = NoValue
    /\ nwb = NoValue
    /\ err = NoValue
    /\ NoBatch
    /\ sidecar_files = NoValue
    /\ NoNotes

StimNext ==
    \/ LoadStimTable
    \/ CompileStimTimeseries

SpecStim == InitStim /\ [][StimNext]_vars

\* ------------------------------------------------------------------------
\* main and convert_subject_snirf_to_nwb
\* ------------------------------------------------------------------------

input_root == "dataset"

output_root == "output"

SubjectIds == {"sub-01", "sub-02", "sub-03"}

GoodRecording == Recording(GoodMeta, 2, 2, BaseDescriptors)

\* A recording in millimetres, and one with an unknown sex code.
BadUnitRecording ==
    Recording([GoodMeta EXCEPT !.LengthUnit = "mm"], 2, 2, BaseDescriptors)

BadSexRecording == Recording([GoodMeta EXCEPT !.sex = "0"], 2, 2, BaseDescriptors)

BatchRecordings == {GoodRecording, BadUnitRecording, BadSexRecording}

\* The participants tables of n rows.
ParticipantTables(n) == [1..n -> SubjectIds]

\* A dataset: the participants table, the subjects that have a directory
\* and the recording found at each recording path.
Dataset(participants, recording) ==
    LET present == {sid \in SubjectIds : recording[sid] # NoValue}
    IN [participants |-> participants,
        subject_dirs |-> present,
        recordings |->
            [p \in {_get_subject_input_path(input_root, sid) : sid \in present} |->
                recording[CHOOSE sid \in present :
                              p = _get_subject_input_path(input_root, sid)]]]

OSError(what) == [exc |-> "OSError", what |-> what]

\* The process dies of the exception e.
Abort(e) ==
    /\ bpc' = "aborted"
    /\ berr' = e

\* The file at path now has the given content.
PutFile(path, content) ==
    {f \in files : f.path # path}
        \cup {[path |-> path, content |-> content, written_in |-> nth]}

\* main: the opening prints and list_subject_ids(dataset_path)
StartMain ==
    /\ bpc = "main"
    /\ stdout' = Append(stdout, <<"converting all snirf files in the input dataset to nwb...">>)
    /\ subject_ids' = list_subject_ids(dataset)
    /\ nth' = 0
    /\ bpc' = "loop"
    /\ UNCHANGED <<convVars, stimVars, notesVars, dataset, paths, dirs, files, handles, reads, berr>>

\* main: the head of the for loop, and the closing prints after it
LoopNext ==
    /\ bpc = "loop"
    /\ IF nth < Len(subject_ids)
       THEN /\ nth' = nth + 1
            /\ bpc' = "paths"
            /\ UNCHANGED stdout
       ELSE /\ stdout' = Append(stdout, <<"Conversion successful!">>)
            /\ bpc' = "exited"
            /\ UNCHANGED nth
    /\ UNCHANGED <<convVars, stimVars, notesVars, dataset, subject_ids, paths, dirs, files,
                   handles, reads, berr>>

\* snirf_path = _get_subject_input_path(...);
\* nwb_path = _prepare_subject_output_path(...); the two prints
PreparePaths ==
    /\ bpc = "paths"
    /\ LET subject_id == subject_ids[nth]
           nwb_path == _prepare_subject_output_path(output_root, subject_id)
       IN /\ paths' = [snirf_path |-> _get_subject_input_path(input_root, subject_id),
                       nwb_path |-> nwb_path]
          /\ dirs' = dirs \cup {nwb_path.dir}
          /\ stdout' = Append(stdout, <<"converting SNIRF --> NWB:", subject_id>>)
    /\ bpc' = "load"
    /\ UNCHANGED <<convVars, stimVars, notesVars, dataset, subject_ids, nth, files, handles, reads, berr>>

\* snirf_data = load_snirf(snirf_path)
LoadSnirf ==
    /\ bpc = "load"
    /\ IF paths.snirf_path \in DOMAIN dataset.recordings
       THEN /\ snirf' = dataset.recordings[paths.snirf_path]
            /\ handles' = handles \cup
                   {[mode |-> "r", path |-> paths.snirf_path, opened_in |-> nth]}
            /\ reads' = Append(reads, paths.snirf_path)
            /\ bpc' = "arguments"
            /\ UNCHANGED berr
       ELSE /\ Abort(OSError("unable to open file"))
            /\ UNCHANGED <<snirf, handles, reads>>
    /\ UNCHANGED <<stimulus_data, pc, channels, nwb, err, stimVars, notesVars, dataset,
                   subject_ids, nth, paths, dirs, files, stdout>>

\* The arguments of the call of convert_to_nwb, and the call itself
CallConvert ==
    /\ bpc = "arguments"
    /\ LET text == _compile_dataset_specific_notes(snirf, sidecar_files)
       IN IF IsError(text)
          THEN /\ Abort(text)
               /\ UNCHANGED <<stimulus_data, pc, notes_text>>
          ELSE /\ stimulus_data' = [rows |-> load_stim_table(DefaultEvents)]
               /\ notes_text' = text.ret
               /\ pc' = "start"
               /\ bpc' = "convert"
               /\ UNCHANGED berr
    /\ channels' = NoValue
    /\ nwb' = NoValue
    /\ err' = NoValue
    /\ UNCHANGED <<snirf, stimVars, sidecar_files, notes_pc, notes, notes_err, dataset,
                   subject_ids, nth, paths, dirs, files, handles, reads, stdout>>

\* ConvertFinished with the call wrapped in try / except: a subject whose
\* conversion raises is skipped and the loop goes on.
ConvertFinishedSkipping ==
    /\ bpc = "convert"
    /\ pc \in {"returned", "raised"}
    /\ bpc' = IF pc = "returned" THEN "open" ELSE "return"
    /\ pc' = "idle"
    /\ UNCHANGED <<snirf, stimulus_data, channels, nwb, err, stimVars, notesVars, dataset,
                   subject_ids, nth, paths, dirs, files, handles, reads, stdout, berr>>

\* convert_to_nwb returns its NWBFile, or its exception leaves
\* convert_subject_snirf_to_nwb and main
ConvertFinished ==
    /\ bpc = "convert"
    /\ pc \in {"returned", "raised"}
    /\ IF pc = "returned"
       THEN bpc' = "open" /\ UNCHANGED berr
       ELSE Abort(err)
    /\ pc' = "idle"
    /\ UNCHANGED <<snirf, stimulus_data, channels, nwb, err, stimVars, notesVars, dataset,
                   subject_ids, nth, paths, dirs, files, handles, reads, stdout>>

\* with NWBHDF5IO(str(nwb_path), "w") as io: the file is created, or cut to
\* nothing if it was there, and opened for writing; or the open fails
OpenOutput ==
    /\ bpc = "open"
    /\ \/ /\ files' = PutFile(paths.nwb_path, "empty")
          /\ handles' = handles \cup
                 {[mode |-> "w", path |-> paths.nwb_path, opened_in |-> nth]}
          /\ bpc' = "write"
          /\ UNCHANGED berr
       \/ /\ Abort(OSError("unable to create file"))
          /\ UNCHANGED <<files, handles>>
    /\ UNCHANGED <<convVars, stimVars, notesVars, dataset, subject_ids, nth, paths, dirs,
                   reads, stdout>>

\* io.write(nwb): the container is written; or the write fails part way,
\* the with statement closes the handle and the exception goes on
WriteOutput ==
    /\ bpc = "write"
    /\ \/ /\ files' = PutFile(paths.nwb_path, "complete")
          /\ bpc' = "close"
          /\ UNCHANGED <<handles, berr>>
       \/ /\ files' = PutFile(paths.nwb_path, "partial")
          /\ handles' = {h \in handles : ~(h.mode = "w" /\ h.opened_in = nth)}
          /\ Abort(OSError("write failed"))
    /\ UNCHANGED <<convVars, stimVars, notesVars, dataset, subject_ids, nth, paths, dirs,
                   reads, stdout>>

\* The end of the with statement: io is closed
CloseOutput ==
    /\ bpc = "close"
    /\ handles' = {h \in handles : ~(h.mode = "w" /\ h.opened_in = nth)}
    /\ bpc' = "return"
    /\ UNCHANGED <<convVars, stimVars, notesVars, dataset, subject_ids, nth, paths, dirs,
                   files, reads, stdout, berr>>

\* convert_subject_snirf_to_nwb returns. Nothing closes snirf_data: the
\* h5py.File goes when the interpreter collects it, at once or not at all.
ReturnFromSubject ==
    /\ bpc = "return"
    /\ \/ handles' = {h \in handles : ~(h.mode = "r" /\ h.opened_in = nth)}
       \/ handles' = handles
    /\ bpc' = "loop"
    /\ UNCHANGED <<convVars, stimVars, notesVars, dataset, subject_ids, nth, paths, dirs,
                   files, reads, stdout, berr>>

InitBatch ==
    /\ \E n \in 0..MaxSubjects : \E participants \in ParticipantTables(n) :
           \E recording \in [SubjectIds -> BatchRecordings \cup {NoValue}] :
               dataset = Dataset(participants, recording)
    /\ bpc = "main"
    /\ subject_ids = <<>>
    /\ nth = 0
    /\ paths = NoValue
    /\ dirs = {}
    /\ files = {}
    /\ handles = {}
    /\ reads = <<>>
    /\ stdout = <<>>
    /\ berr = NoValue
    /\ snirf = NoValue
    /\ stimulus_data = NoValue
    /\ pc = "idle"
    /\ channels = NoValue
    /\ nwb = NoValue
    /\ err = NoValue
    /\ events_tsv = <<>>
    /\ stim_pc = "idle"
    /\ stim_timeseries = NoValue
    /\ sidecar_files = CompleteSidecars
    /\ NoNotes

BatchNext ==
    \/ StartMain
    \/ LoopNext
    \/ PreparePaths
    \/ LoadSnirf
    \/ CallConvert
    \/ ConvertNext
    \/ ConvertFinished
    \/ OpenOutput
    \/ WriteOutput
    \/ CloseOutput
    \/ ReturnFromSubject

SpecBatch == InitBatch /\ [][BatchNext]_vars

\* ------------------------------------------------------------------------
\* _compile_dataset_specific_notes, one action per statement group
\* ------------------------------------------------------------------------

RaiseNotes(e) ==
    /\ notes_pc' = "raised"
    /\ notes_err' = e

\* notes = OrderedDict() and the four assignments that follow it
NotesHeader ==
    /\ notes_pc = "start"
    /\ LET r == NotesHead(snirf, sidecar_files)
       IN IF IsError(r) THEN RaiseNotes(r) /\ UNCHANGED notes
          ELSE notes_pc' = "head" /\ notes' = r.ret /\ UNCHANGED notes_err
    /\ UNCHANGED <<convVars, stimVars, batchVars, sidecar_files, notes_text>>

\* coord_description = ...; for field in desired_fields: notes[field] = ...
NotesCoordFields ==
    /\ notes_pc = "head"
    /\ LET r == CopyFields(notes, get_coordinate_frame_description(sidecar_files),
                           coord_desired_fields, 1)
       IN IF IsError(r) THEN RaiseNotes(r) /\ UNCHANGED notes
          ELSE notes_pc' = "coord" /\ notes' = r.ret /\ UNCHANGED notes_err
    /\ UNCHANGED <<convVars, stimVars, batchVars, sidecar_files, notes_text>>

\* sidecare_metadata = ...; for field in desired_fields: notes[field] = ...
NotesSidecarFields ==
    /\ notes_pc = "coord"
    /\ LET r == CopyFields(notes, get_sidecar_metadata(sidecar_files),
                           sidecar_desired_fields, 1)
       IN IF IsError(r) THEN RaiseNotes(r) /\ UNCHANGED notes
          ELSE notes_pc' = "sidecar" /\ notes' = r.ret /\ UNCHANGED notes_err
    /\ UNCHANGED <<convVars, stimVars, batchVars, sidecar_files, notes_text>>

\* return _serialize_notes(notes)
NotesSerialize ==
    /\ notes_pc = "sidecar"
    /\ notes_text' = _serialize_notes(notes)
    /\ notes_pc' = "returned"
    /\ UNCHANGED <<convVars, stimVars, batchVars, sidecar_files, notes, notes_err>>

InitNotes ==
    /\ \E version \in {"1.0", "1.1"} :
           snirf = [GoodRecording EXCEPT !.formatVersion = version]
    /\ \E bids_version \in {"1.7.0", "1.8.0"}, units \in {"m", "mm"},
          frequency \in {"50", "60"} :
         \E dk \in SUBSET DOMAIN DescriptionValues(bids_version),
            ck \in SUBSET DOMAIN CoordValues(units),
            sk \in SUBSET DOMAIN SidecarValues(frequency) :
             sidecar_files =
                 [dataset_description |-> Restrict(DescriptionValues(bids_version), dk),
                  coordsystem |-> Restrict(CoordValues(units), ck),
                  nirs_sidecar |-> Restrict(SidecarValues(frequency), sk)]
    /\ notes_pc = "start"
    /\ notes = <<>>
    /\ notes_text = NoValue
    /\ notes_err = NoValue
    /\ stimulus_data = NoValue
    /\ pc = "idle"
    /\ channels = NoValue
    /\ nwb = NoValue
    /\ err = NoValue
    /\ events_tsv = <<>>
    /\ stim_pc = "idle"
    /\ stim_timeseries = NoValue
    /\ NoBatch

NotesNext ==
    \/ NotesHeader
    \/ NotesCoordFields
    \/ NotesSidecarFields
    \/ NotesSerialize

SpecNotes == InitNotes /\ [][NotesNext]_vars

\* ------------------------------------------------------------------------
\* Properties of convert_to_nwb (specification Spec)
\* ------------------------------------------------------------------------

\* The descriptor groups of the recording: the keys of data1 that start with
\* "measurementList".
DescriptorGroups == {k \in DOMAIN snirf.data1 : k.stem = "measurementList"}

ChannelsBuilt == pc \in {"channels_mapped", "file_built", "returned"}

\* C1: in the output of every conversion that returns, each row of the
\* channels table carries a source index in 0..len(sources)-1 and a detector
\* index in 0..len(detectors)-1.
C1_IndicesInRange ==
    pc = "returned" =>
        \A k \in 1..Len(nwb.device_channels.rows) :
            LET row == nwb.device_channels.rows[k]
            IN /\ 0 <= row.source
               /\ row.source < Len(nwb.device_channels.source_table)
               /\ 0 <= row.detector
               /\ row.detector < Len(nwb.device_channels.detector_table)

\* C2: the channels table built by map_channel_metadata has as many rows as
\* the recording has descriptor groups, also when two group names carry the
\* same number.
C2_RowPerDescriptorGroup ==
    ChannelsBuilt => Len(channels.rows) = Cardinality(DescriptorGroups)

\* C3: a conversion that gets past the subject record had sex code "1" and
\* produced "M", or "2" and produced "F"; with any other code it raised the
\* unknown-sex-id error naming that code and built no session object.
C3_SexCodeMapping ==
    LET code == snirf.metaDataTags.sex
    IN /\ pc \in {"file_built", "returned"} =>
            \/ code = "1" /\ nwb.subject.sex = "M"
            \/ code = "2" /\ nwb.subject.sex = "F"
       /\ (pc = "raised" /\ code \notin {"1", "2"} /\ err.exc \notin {"ValueError", "IndexError"}) =>
            /\ err.exc = "KeyError"
            /\ err.what = "sex id is not known"
            /\ err.found = code
       /\ (pc = "raised" /\ err.exc = "KeyError") =>
            /\ code \notin {"1", "2"}
            /\ nwb = NoValue

C3_Witness ==
    /\ pc = "raised"
    /\ err.exc = "KeyError"
    /\ err.found = ""
    /\ snirf.metaDataTags.sex = ""
    /\ nwb = NoValue

\* C4: the conversion gets past the unit check only with LengthUnit "m",
\* TimeUnit "s" and FrequencyUnit "Hz"; otherwise it raises, before any table
\* is built, an error naming a mismatching field, the unit expected for it and
\* the unit found.
C4_UnitsChecked ==
    LET meta == snirf.metaDataTags
        exact == meta.LengthUnit = "m" /\ meta.TimeUnit = "s" /\ meta.FrequencyUnit = "Hz"
        expected == [f \in {"LengthUnit", "TimeUnit", "FrequencyUnit"} |->
                        IF f = "LengthUnit" THEN "m"
                        ELSE IF f = "TimeUnit" THEN "s" ELSE "Hz"]
    IN /\ pc \notin {"start", "raised"} => exact
       /\ (pc = "raised" /\ ~exact) =>
            /\ err.exc = "ValueError"
            /\ err.what = "Unsupported unit of measurement"
            /\ err.field \in DOMAIN expected
            /\ err.expected = expected[err.field]
            /\ err.found = meta[err.field]
            /\ err.found # err.expected
            /\ channels = NoValue
            /\ nwb = NoValue
       /\ (pc = "raised" /\ exact) => err.what # "Unsupported unit of measurement"

C4_Witness ==
    /\ pc = "raised"
    /\ snirf.metaDataTags.LengthUnit = "mm"
    /\ err.what = "Unsupported unit of measurement"
    /\ err.field = "LengthUnit"
    /\ err.expected = "m"
    /\ err.found = "mm"
    /\ channels = NoValue

\* C5: the conversion gets past the data type check only if every descriptor
\* group of the recording has dataType 1 and dataTypeIndex 1.
C5_EveryDescriptorChecked ==
    pc \in {"types_checked", "channels_mapped", "file_built", "returned"} =>
        \A k \in DescriptorGroups :
            snirf.data1[k].dataType = 1 /\ snirf.data1[k].dataTypeIndex = 1

\* The entry of a table column that a stored row index refers to, an index
\* below zero counting from the end.
EntryAt(column, index) ==
    IF index >= 0 THEN column[index + 1] ELSE column[Len(column) + index + 1]

\* n is x formatted with no decimals, x a count of halves: the nearest
\* integer, the even one of the two when x lies halfway.
IsRounded(n, halves) ==
    /\ 2 * n - halves \in {-1, 0, 1}
    /\ 2 * n # halves => n % 2 = 0

\* C7: the label of every row of the channels table is
\* "{source_label}_{detector_label} {wavelength:.0f}" for the source and the
\* detector the row's own indices refer to and the wavelength the row
\* stores, which is the one the descriptor's wavelength index selects.
C7_LabelAgreesWithRow ==
    ChannelsBuilt =>
        LET meta == compile_channel_data(snirf)
        IN \A k \in 1..Len(channels.rows) :
            LET row == channels.rows[k]
            IN /\ row.source = meta[k][2].source_idx
               /\ row.detector = meta[k][2].detector_idx
               /\ row.source_wavelength =
                      snirf.probe.wavelengths[meta[k][2].wavelength_idx + 1]
               /\ Len(row.label) = 5
               /\ row.label[1] = EntryAt(channels.source_table, row.source).label
               /\ row.label[2] = "_"
               /\ row.label[3] = EntryAt(channels.detector_table, row.detector).label
               /\ row.label[4] = " "
               /\ IsRounded(row.label[5], row.source_wavelength)

C7_Witness ==
    /\ pc = "returned"
    /\ Len(channels.rows) = 2
    /\ channels.rows[1].label = <<SourceLabel(2), "_", DetectorLabel(1), " ", 760>>
    /\ channels.rows[2].label = <<SourceLabel(1), "_", DetectorLabel(2), " ", 852>>
    /\ channels.rows[1].source = 1
    /\ channels.rows[2].detector = 1

\* ------------------------------------------------------------------------
\* Properties of the stimulus pipeline (specification SpecStim)
\* ------------------------------------------------------------------------

\* C6: the table load_stim_table returns holds exactly the rows of the
\* events file whose value is not 15, each once and in the order of the
\* file, and the stimulus series is built from those rows.
C6_MarkerRowsDropped ==
    stim_pc \in {"loaded", "compiled"} =>
        LET out == stimulus_data.rows
            kept == {k \in 1..Len(events_tsv) : events_tsv[k].value # 15}
        IN /\ \A j \in 1..Len(out) : out[j].value # 15
           /\ \A k \in kept : \E j \in 1..Len(out) : out[j] = events_tsv[k]
           /\ \A j \in 1..Len(out) : \E k \in kept : out[j] = events_tsv[k]
           /\ \A i, j \in 1..Len(out) : i < j => out[i].onset < out[j].onset
           /\ Len(out) = Cardinality(kept)
           /\ stim_pc = "compiled" =>
                /\ Len(stim_timeseries.data) = Cardinality(kept)
                /\ \A j \in 1..Len(out) :
                      /\ stim_timeseries.data[j] = out[j].trial_type
                      /\ stim_timeseries.timestamps[j] = out[j].onset

C6_Witness ==
    /\ stim_pc = "compiled"
    /\ Len(events_tsv) = 4
    /\ events_tsv[1].value = 15
    /\ events_tsv[2].value = 15
    /\ events_tsv[3].value = 16
    /\ events_tsv[4].value = 15
    /\ stimulus_data.rows = <<events_tsv[3]>>
    /\ stim_timeseries.timestamps = <<2>>

\* ------------------------------------------------------------------------
\* Properties of the batch run (specification SpecBatch)
\* ------------------------------------------------------------------------

\* Where the recording of a subject is read from and where its container
\* is to be written.
RecordingPathOf(sid) ==
    [dir |-> <<"dataset", sid, "nirs">>, stem |-> <<sid, "_task-tapping_nirs">>,
     ext |-> ".snirf"]

ContainerPathOf(sid) ==
    [dir |-> <<"output", sid>>, stem |-> <<sid, "_task-tapping_nirs">>, ext |-> ".nwb"]

SuccessPrinted == \E i \in 1..Len(stdout) : stdout[i] = <<"Conversion successful!">>

\* Only the first nth listed subjects have been read or written.
NoLaterSubjectTouched ==
    /\ Len(reads) <= nth
    /\ \A i \in 1..Len(reads) : reads[i] = RecordingPathOf(subject_ids[i])
    /\ \A f \in files : \E j \in 1..nth : f.path = ContainerPathOf(subject_ids[j])

\* C8 as stated: when the run aborts at the nth subject, the success line is
\* not printed, no later subject is read or written, no container file is
\* written for the failing subject and the containers of the subjects before
\* it are in place.
C8_NoContainerForFailingSubject ==
    bpc = "aborted" =>
        /\ ~SuccessPrinted
        /\ NoLaterSubjectTouched
        /\ \A f \in files : f.written_in # nth
        /\ \A j \in 1..(nth - 1) :
              \E f \in files :
                  f.path = ContainerPathOf(subject_ids[j]) /\ f.content = "complete"

\* C8 as amended: the subjects are processed one after another and the run
\* ends at the first failure. Every subject the loop has passed has its
\* container, no later subject is read or written, an aborted run prints no
\* success line and takes no further step; the failing subject has no
\* container written unless io.write itself failed, which leaves an
\* incomplete file at its path.
C8_AbortOnFirstFailure ==
    /\ NoLaterSubjectTouched
    /\ \A j \in 1..(nth - 1) :
          \E f \in files :
              /\ f.path = ContainerPathOf(subject_ids[j])
              /\ f.content = "complete" \/ f.written_in = nth
    /\ bpc = "aborted" =>
          /\ ~SuccessPrinted
          /\ ~ENABLED BatchNext
          /\ berr.what # "write failed" => \A f \in files : f.written_in # nth
          /\ berr.what = "write failed" =>
                \E f \in files :
                    /\ f.path = ContainerPathOf(subject_ids[nth])
                    /\ f.content = "partial"
                    /\ f.written_in = nth
    /\ SuccessPrinted =>
          /\ bpc = "exited"
          /\ nth = Len(subject_ids)
          /\ \A f \in files : f.content = "complete"

C8_Witness ==
    /\ bpc = "aborted"
    /\ Len(subject_ids) = 3
    /\ nth = 2
    /\ berr.exc = "ValueError"
    /\ berr.what = "Unsupported unit of measurement"
    /\ files = {[path |-> ContainerPathOf(subject_ids[1]), content |-> "complete",
                 written_in |-> 1]}
    /\ subject_ids[3] \in dataset.subject_dirs
    /\ Len(reads) = 2

C10_HandlesReleased ==
    /\ bpc \in {"loop", "exited", "aborted"} => handles = {}
    /\ \A h \in handles : h.opened_in = nth


\* ------------------------------------------------------------------------
\* Properties of _compile_dataset_specific_notes (specification SpecNotes)
\* ------------------------------------------------------------------------

\* The keys the notes read, with the file each is read from, in the order
\* the notes list them.
RequiredFields ==
    << <<"dataset_description", "BIDSVersion">>,
       <<"coordsystem", "NIRSCoordinateSystem">>,
       <<"coordsystem", "NIRSCoordinateSystemDescription">>,
       <<"coordsystem", "NIRSCoordinateUnits">>,
       <<"nirs_sidecar", "TaskName">>,
       <<"nirs_sidecar", "PowerLineFrequency">> >>

MissingFields ==
    {k \in 1..Len(RequiredFields) :
        RequiredFields[k][2] \notin DOMAIN sidecar_files[RequiredFields[k][1]]}

FirstMissing == CHOOSE k \in MissingFields : \A other \in MissingFields : k <= other

\* C11: the notes text is one "key: value" line per key, joined by
\* newlines, in the order source SNIRF version, dataset BIDS version,
\* conversion script, conversion codebase version, NIRSCoordinateSystem,
\* NIRSCoordinateSystemDescription, NIRSCoordinateUnits, TaskName,
\* PowerLineFrequency; and when a sidecar file lacks one of its keys the
\* call raises a KeyError naming the missing field and returns no text.
C11_NotesInOrder ==
    /\ notes_pc = "returned" =>
          /\ MissingFields = {}
          /\ notes_text =
               << <<"Source file SNIRF version", ": ", snirf.formatVersion>>,
                  <<"\n">>,
                  <<"Source dataset BIDS version", ": ",
                    sidecar_files.dataset_description["BIDSVersion"]>>,
                  <<"\n">>,
                  <<"Conversion script", ": ", "convert_tapping_dataset_to_nirs.py">>,
                  <<"\n">>,
                  <<"Conversion codebase version", ": ", "0.1.0">>,
                  <<"\n">>,
                  <<"NIRSCoordinateSystem", ": ",
                    sidecar_files.coordsystem["NIRSCoordinateSystem"]>>,
                  <<"\n">>,
                  <<"NIRSCoordinateSystemDescription", ": ",
                    sidecar_files.coordsystem["NIRSCoordinateSystemDescription"]>>,
                  <<"\n">>,
                  <<"NIRSCoordinateUnits", ": ",
                    sidecar_files.coordsystem["NIRSCoordinateUnits"]>>,
                  <<"\n">>,
                  <<"TaskName", ": ", sidecar_files.nirs_sidecar["TaskName"]>>,
                  <<"\n">>,
                  <<"PowerLineFrequency", ": ",
                    sidecar_files.nirs_sidecar["PowerLineFrequency"]>> >>
    /\ notes_pc = "raised" =>
          /\ MissingFields # {}
          /\ notes_err.exc = "KeyError"
          /\ notes_err.found = RequiredFields[FirstMissing][2]
          /\ notes_text = NoValue
    /\ notes_pc \in {"head", "coord", "sidecar"} => notes_text = NoValue

\* A call that copied NIRSCoordinateUnits and TaskName and then failed on
\* a task sidecar without PowerLineFrequency.
C11_Witness ==
    /\ notes_pc = "raised"
    /\ notes_err.exc = "KeyError"
    /\ notes_err.found = "PowerLineFrequency"
    /\ Len(notes) = 7
    /\ notes_text = NoValue
    /\ "SamplingFrequency" \in DOMAIN sidecar_files.nirs_sidecar

\* ------------------------------------------------------------------------
\* Order of the channel rows (specification Spec)
\* ------------------------------------------------------------------------

\* The recording holds the descriptor groups measurementList1 ..
\* measurementListn and no other.
NumberedGroups(n) == DescriptorGroups = {MLKey(Digits(i)) : i \in 1..n}

\* C12: for a recording whose descriptor groups are measurementList1 ..
\* measurementListn, row i of the channels table (counted from 0) is built
\* from measurementList(i+1), and the acquisition series references the
\* rows 0..n-1 in table order.
C12_RowsInSuffixOrder ==
    \A n \in 1..MaxGroups :
        (ChannelsBuilt /\ NumberedGroups(n)) =>
            /\ Len(channels.rows) = n
            /\ \A i \in 0..(n - 1) :
                   LET group == snirf.data1[MLKey(Digits(i + 1))]
                       row == channels.rows[i + 1]
                   IN /\ row.source = group.sourceIndex - 1
                      /\ row.detector = group.detectorIndex - 1
                      /\ row.source_wavelength =
                             snirf.probe.wavelengths[group.wavelengthIndex]
            /\ pc = "returned" =>
                   nwb.acquisition.channels = [k \in 1..n |-> k - 1]

====
